---- MODULE Spec2Model ----
(***************************************************************************)
(* A model of the language server of vue-css-modules-extension             *)
(* (server.ts, kept as src/unnamed/part_000, and server/src/parser/vue.ts).*)
(*                                                                         *)
(* The server keeps one process-wide completion cache (compItemMap and     *)
(* completionItems) that validateTextDocument rebuilds from the module     *)
(* style blocks of a Vue single-file component.  Every handler of the      *)
(* connection is one action; a handler runs to completion.                 *)
(*                                                                         *)
(* Strings the code slices (symbol names, labels) are sequences of         *)
(* one-character strings, so that slice() is computed, not assumed.        *)
(***************************************************************************)
EXTENDS Integers, Sequences, FiniteSets, TLC

VARIABLES
    phase,                                     \* lifecycle of the connection
    hasConfigurationCapability,                \* part_000:30
    hasWorkspaceFolderCapability,              \* part_000:31
    hasDiagnosticRelatedInformationCapability, \* part_000:32
    globalSettings,                            \* part_000:97
    documentSettings,                          \* part_000:100
    documents,                                 \* part_000:28, open documents in the manager's order
    completionItems,                           \* part_000:45
    compItemMap,                               \* part_000:46, entries in insertion order
    parsedWith,      \* the language service created for each block parsed by the last rebuild
    lastChanged,     \* the document of the last onDidChangeContent event
    lastValidated,   \* the document of the last validateTextDocument call
    reply,           \* what the last handler returned to the client
    rebuild          \* the validateTextDocument calls that have begun and not ended,
                     \* and the documents the running forEach has yet to pass

vars == << phase, hasConfigurationCapability, hasWorkspaceFolderCapability,
           hasDiagnosticRelatedInformationCapability, globalSettings,
           documentSettings, documents, completionItems, compItemMap,
           parsedWith, lastChanged, lastValidated, reply, rebuild >>

(***************************************************************************)
(* Bounds.                                                                 *)
(***************************************************************************)
\* style blocks of a document of the rebuild specification
MaxBlocks == 2
\* symbols, over all its blocks, of a document of the rebuild specification
MaxSyms == 2
\* cursor positions a completion request may carry: 0..MaxPosition
MaxPosition == 1
\* calls of validateTextDocument the step specification lets be under way at once
MaxFrames == 2

(***************************************************************************)
(* JavaScript strings and their slice().                                   *)
(***************************************************************************)
Min(a, b) == IF a < b THEN a ELSE b

\* s.slice(start, end) for 0 <= start <= end
Slice(s, start, end) == SubSeq(s, start + 1, Min(end, Len(s)))

\* s.slice(start) for 0 <= start
SliceFrom(s, start) == SubSeq(s, start + 1, Len(s))

Range(s) == { s[i] : i \in DOMAIN s }

(***************************************************************************)
(* The data the external parsers hand back.                                *)
(***************************************************************************)
\* SymbolInformation of vscode-css-languageservice: a name and a SymbolKind
Sym(name, kind) == [name |-> name, kind |-> kind]

\* what a language service makes of a block's content: a thrown error or symbols
Content(throws, symbols) == [throws |-> throws, symbols |-> symbols]

\* SFCBlock of a <style> tag; lang "" stands for an absent lang attribute
Block(module, lang, content) == [module |-> module, lang |-> lang, content |-> content]

\* what parse() makes of a source text: a thrown error, or a descriptor whose
\* styles are an array or are missing
Source(throws, hasStyles, blocks) ==
    [throws |-> throws, hasStyles |-> hasStyles, blocks |-> blocks]

TextDoc(uri, text) == [uri |-> uri, text |-> text]

ClassA    == Sym(<<".", "a">>, "Class")
ClassB    == Sym(<<".", "b">>, "Class")
IdA       == Sym(<<"#", "a">>, "Class")
MixinA    == Sym(<<".", "a">>, "Method")
ClassDot  == Sym(<<".">>, "Class")
ElemA     == Sym(<<"a">>, "Class")
ClassLabel == Sym(<<".", "l", "a", "b", "e", "l">>, "Class")
ClassWorld == Sym(<<".", "w", "o", "r", "l", "d">>, "Class")

(***************************************************************************)
(* The JavaScript Map behind compItemMap: a sequence of entries in         *)
(* insertion order.                                                        *)
(***************************************************************************)
\* Map.prototype.get: {} stands for undefined, {v} for the value found
MapGet(m, k) == { m[i].value : i \in { j \in DOMAIN m : m[j].key = k } }

\* Map.prototype.set keeps the position of a key that is already present
MapSet(m, k, v) ==
    IF \E i \in DOMAIN m : m[i].key = k
    THEN [i \in DOMAIN m |-> IF m[i].key = k THEN [key |-> k, value |-> v] ELSE m[i]]
    ELSE Append(m, [key |-> k, value |-> v])

\* [...map.values()]
MapValues(m) == IF m = <<>> THEN <<>> ELSE [i \in DOMAIN m |-> m[i].value]

\* Map.prototype.clear
MapClear(m) == SubSeq(m, 1, 0)

\* array.length = n for n <= array.length
SetLength(a, n) == SubSeq(a, 1, n)

(***************************************************************************)
(* getLanguageService, part_000:34-43.                                     *)
(***************************************************************************)
getLanguageService(fileExtension) ==
    CASE fileExtension = ".less" -> "LESS"
      [] fileExtension = ".scss" -> "SCSS"
      [] OTHER -> "CSS"

(***************************************************************************)
(* VueParser.getStyles, vue.ts:20-22: descriptor.styles || null.           *)
(* The result is [isNull, blocks]; an array, even an empty one, is truthy. *)
(***************************************************************************)
\* a slip: an empty array, not null, stands in for missing styles
getStylesOrEmpty(descriptor) ==
    IF descriptor.hasStyles
    THEN [isNull |-> FALSE, blocks |-> descriptor.blocks]
    ELSE [isNull |-> FALSE, blocks |-> <<>>]

getStyles(descriptor) ==
    IF descriptor.hasStyles
    THEN [isNull |-> FALSE, blocks |-> descriptor.blocks]
    ELSE [isNull |-> TRUE, blocks |-> <<>>]

(***************************************************************************)
(* validateTextDocument, part_000:144-191.                                 *)
(* A rebuild works on [map, items, log, threw]: compItemMap,               *)
(* completionItems, the services created so far, and whether an error      *)
(* left the function early.                                                *)
(***************************************************************************)
\* a slip: the first character is dropped whatever it is ('.' or '#')
ClassNameOfAnyPrefix(sym) ==
    IF Len(sym.name) >= 1
    THEN [isNull |-> FALSE, value |-> SliceFrom(sym.name, 1)]
    ELSE [isNull |-> TRUE, value |-> <<>>]

\* part_000:172: sym.name.slice(0, 1) === '.' ? sym.name.slice(1) : null
ClassNameOf(sym) ==
    IF Slice(sym.name, 0, 1) = <<".">>
    THEN [isNull |-> FALSE, value |-> SliceFrom(sym.name, 1)]
    ELSE [isNull |-> TRUE, value |-> <<>>]

\* part_000:171
IsClassSymbol(sym) == sym.kind = "Class"

\* a slip: only null is turned away, the empty string gets through
FalsyNullOnly(className) == className.isNull

\* !className: null and the empty string are falsy
Falsy(className) == className.isNull \/ className.value = <<>>

\* part_000:174-176: the symbols that get past the continue
Admitted(sym) == ~ (~ IsClassSymbol(sym) \/ Falsy(ClassNameOf(sym)))

\* part_000:178-181
CompletionItemOf(className) == [label |-> className, kind |-> "Property"]

\* a slip: the item is added without looking its name up
AddSymbolPush(map, sym) ==
    IF ~ Admitted(sym)
    THEN map
    ELSE LET className == ClassNameOf(sym).value
         IN  Append(map, [key |-> className, value |-> CompletionItemOf(className)])

\* part_000:170-185, one pass of the loop over documentSymbols
AddSymbol(map, sym) ==
    IF ~ Admitted(sym)
    THEN map
    ELSE LET className == ClassNameOf(sym).value
         IN  IF MapGet(map, className) = {}
             THEN MapSet(map, className, CompletionItemOf(className))
             ELSE map

\* part_000:169-186
RECURSIVE AddSymbols(_, _, _)
AddSymbols(map, documentSymbols, k) ==
    IF k > Len(documentSymbols)
    THEN map
    ELSE AddSymbols(AddSymbol(map, documentSymbols[k]), documentSymbols, k + 1)

\* a slip: the module flag is not looked at
ProcessBlockAnyBlock(st, style) ==
    LET lang    == IF style.lang = "" THEN "css" ELSE style.lang
        service == getLanguageService(lang)
        log     == Append(st.log, [lang |-> style.lang, service |-> service])
    IN  IF style.content.throws
        THEN [st EXCEPT !.log = log, !.threw = TRUE]
        ELSE LET map == AddSymbols(st.map, style.content.symbols, 1)
             IN  [st EXCEPT !.map = map, !.items = MapValues(map), !.log = log]

\* a slip: every block starts from an empty map
ProcessBlockFresh(st, style) ==
    IF ~ style.module
    THEN st
    ELSE LET lang    == IF style.lang = "" THEN "css" ELSE style.lang
             service == getLanguageService(lang)
             log     == Append(st.log, [lang |-> style.lang, service |-> service])
         IN  IF style.content.throws
             THEN [st EXCEPT !.log = log, !.threw = TRUE]
             ELSE LET map == AddSymbols(<<>>, style.content.symbols, 1)
                  IN  [st EXCEPT !.map = map, !.items = MapValues(map), !.log = log]

\* a slip: the list is copied from the map before the block's symbols are added
ProcessBlockPublishFirst(st, style) ==
    IF ~ style.module
    THEN st
    ELSE LET lang    == IF style.lang = "" THEN "css" ELSE style.lang
             service == getLanguageService(lang)
             log     == Append(st.log, [lang |-> style.lang, service |-> service])
         IN  IF style.content.throws
             THEN [st EXCEPT !.log = log, !.threw = TRUE]
             ELSE LET map == AddSymbols(st.map, style.content.symbols, 1)
                  IN  [st EXCEPT !.map = map, !.items = MapValues(st.map), !.log = log]

\* part_000:155-189, one pass of the loop over styles
ProcessBlock(st, style) ==
    IF ~ style.module
    THEN st
    ELSE LET lang    == IF style.lang = "" THEN "css" ELSE style.lang
             service == getLanguageService(lang)
             log     == Append(st.log, [lang |-> style.lang, service |-> service])
         IN  IF style.content.throws
             THEN [st EXCEPT !.log = log, !.threw = TRUE]
             ELSE LET map == AddSymbols(st.map, style.content.symbols, 1)
                  IN  [st EXCEPT !.map = map, !.items = MapValues(map), !.log = log]

\* a slip: a block that fails is skipped and the blocks after it are processed
RECURSIVE ProcessBlocksSkipFailed(_, _, _)
ProcessBlocksSkipFailed(st, styles, i) ==
    IF i > Len(styles)
    THEN st
    ELSE ProcessBlocksSkipFailed(ProcessBlock(st, styles[i]), styles, i + 1)

\* part_000:154-190
RECURSIVE ProcessBlocks(_, _, _)
ProcessBlocks(st, styles, i) ==
    IF i > Len(styles) \/ st.threw
    THEN st
    ELSE ProcessBlocks(ProcessBlock(st, styles[i]), styles, i + 1)

\* a slip: the list is not emptied
ResetCacheKeepItems(map, items) ==
    [map |-> MapClear(map), items |-> items, log |-> <<>>, threw |-> FALSE]

\* part_000:146-147
ResetCache(map, items) ==
    [map |-> MapClear(map), items |-> SetLength(items, 0), log |-> <<>>, threw |-> FALSE]

\* part_000:144-191; an error thrown inside the async function rejects its
\* promise and leaves the cache as it stands at the throw
validateTextDocument(map, items, textDocument) ==
    LET st0 == ResetCache(map, items)
    IN  IF textDocument.text.throws
        THEN [st0 EXCEPT !.threw = TRUE]
        ELSE LET got    == getStyles(textDocument.text)
                 styles == IF got.isNull THEN <<>> ELSE got.blocks
             IN  ProcessBlocks(st0, styles, 1)

(***************************************************************************)
(* The inputs of the server specification: a few documents that cover the  *)
(* shapes the handlers tell apart.                                         *)
(***************************************************************************)
Uris == {"file:///src/A.vue", "file:///src/B.vue"}

\* <template/> alone: the descriptor's styles are an empty array
TextNoStyle == Source(FALSE, TRUE, <<>>)
\* a descriptor without a styles array
TextStylesMissing == Source(FALSE, FALSE, <<>>)
\* a source the SFC parser throws on
TextUnparsable == Source(TRUE, FALSE, <<>>)
\* <style module lang=".less">.a{}</style><style module lang=".scss">.b{} .a{}</style>
TextAB ==
    Source(FALSE, TRUE,
           << Block(TRUE, ".less", Content(FALSE, <<ClassA>>)),
              Block(TRUE, ".scss", Content(FALSE, <<ClassB, ClassA>>)) >>)
\* <style>.b{} .label{}</style>
\* <style module lang="scss">.b{} #a{} @mixin .a .{} a{} .a{} .b{}</style>
TextMixed ==
    Source(FALSE, TRUE,
           << Block(FALSE, "", Content(FALSE, <<ClassB, ClassLabel>>)),
              Block(TRUE, "scss",
                    Content(FALSE, <<ClassB, IdA, MixinA, ClassDot, ElemA, ClassA, ClassB>>)) >>)
\* <style module lang="less">.label{} .world{}</style><style module>(a parse error)</style>
TextLabelThenError ==
    Source(FALSE, TRUE,
           << Block(TRUE, "less", Content(FALSE, <<ClassLabel, ClassWorld>>)),
              Block(TRUE, "", Content(TRUE, <<>>)) >>)

Texts == { TextNoStyle, TextStylesMissing, TextUnparsable, TextAB, TextMixed,
           TextLabelThenError }

Positions == 0..MaxPosition

\* params.capabilities of the initialize request, the three fields the server reads
Capabilities(configuration, workspaceFolders, relatedInformation) ==
    [configuration |-> configuration, workspaceFolders |-> workspaceFolders,
     relatedInformation |-> relatedInformation]

ClientCapabilities ==
    { Capabilities(FALSE, FALSE, FALSE), Capabilities(TRUE, FALSE, TRUE),
      Capabilities(FALSE, TRUE, FALSE), Capabilities(TRUE, TRUE, TRUE) }

\* part_000:96
defaultSettings == [maxNumberOfProblems |-> 1000]

\* change.settings of a configuration change: null, an object without the
\* languageServerExample section, or one with it
ChangeSettings ==
    { [isNull |-> TRUE,  hasSection |-> FALSE, section |-> defaultSettings],
      [isNull |-> FALSE, hasSection |-> FALSE, section |-> defaultSettings],
      [isNull |-> FALSE, hasSection |-> TRUE,  section |-> [maxNumberOfProblems |-> 100]] }

NoReply == [kind |-> "none"]

(***************************************************************************)
(* The document manager (TextDocuments, part_000:28 and 227): the open     *)
(* documents in the order they were opened; all() lists them in that order.*)
(***************************************************************************)
IsOpen(docs, uri) == \E i \in DOMAIN docs : docs[i].uri = uri

\* didOpen: a new entry at the end
OpenDocument(docs, uri, text) == Append(docs, TextDoc(uri, text))

\* didChange: the entry keeps its place
UpdateDocument(docs, uri, text) ==
    [i \in DOMAIN docs |-> IF docs[i].uri = uri THEN TextDoc(uri, text) ELSE docs[i]]

RECURSIVE RemoveDocument(_, _)
\* didClose
RemoveDocument(docs, uri) ==
    IF docs = <<>> THEN <<>>
    ELSE IF Head(docs).uri = uri THEN RemoveDocument(Tail(docs), uri)
    ELSE <<Head(docs)>> \o RemoveDocument(Tail(docs), uri)

\* Map.prototype.delete on documentSettings
RECURSIVE MapDelete(_, _)
MapDelete(m, k) ==
    IF m = <<>> THEN <<>>
    ELSE IF Head(m).key = k THEN MapDelete(Tail(m), k)
    ELSE <<Head(m)>> \o MapDelete(Tail(m), k)

\* no call of validateTextDocument is under way
NoRebuild == [frames |-> <<>>, queue |-> <<>>]

(***************************************************************************)
(* The state after the module has been loaded, part_000:25-46 and 96-100.  *)
(***************************************************************************)
Init ==
    /\ phase = "created"
    /\ hasConfigurationCapability = FALSE
    /\ hasWorkspaceFolderCapability = FALSE
    /\ hasDiagnosticRelatedInformationCapability = FALSE
    /\ globalSettings = defaultSettings
    /\ documentSettings = <<>>
    /\ documents = <<>>
    /\ completionItems = <<>>
    /\ compItemMap = <<>>
    /\ parsedWith = <<>>
    /\ lastChanged = <<>>
    /\ lastValidated = <<>>
    /\ reply = NoReply
    /\ rebuild = NoRebuild

settingsVars == << hasConfigurationCapability, hasWorkspaceFolderCapability,
                   hasDiagnosticRelatedInformationCapability, globalSettings,
                   documentSettings >>

cacheVars == << completionItems, compItemMap, parsedWith, lastValidated >>

(***************************************************************************)
(* connection.onInitialize, part_000:49-77.                                *)
(***************************************************************************)
\* a slip: workspace-folder support is advertised to every client
InitializeResultAlways(workspaceFolders) ==
    [textDocumentSync |-> "Incremental",
     resolveProvider |-> TRUE,
     workspaceFolders |-> TRUE]

\* part_000:62-76; workspaceFolders stands for capabilities.workspace being there
InitializeResult(workspaceFolders) ==
    [textDocumentSync |-> "Incremental",
     resolveProvider |-> TRUE,
     workspaceFolders |-> workspaceFolders]

OnInitialize(capabilities) ==
    /\ phase = "created"
    /\ UNCHANGED rebuild
    /\ phase' = "initializing"
    /\ hasConfigurationCapability' = capabilities.configuration
    /\ hasWorkspaceFolderCapability' = capabilities.workspaceFolders
    /\ hasDiagnosticRelatedInformationCapability' = capabilities.relatedInformation
    /\ reply' = [kind |-> "initialize",
                 request |-> capabilities,
                 result |-> InitializeResult(hasWorkspaceFolderCapability')]
    /\ UNCHANGED << globalSettings, documentSettings, documents, lastChanged >>
    /\ UNCHANGED cacheVars

(***************************************************************************)
(* connection.onInitialized, part_000:79-90: registrations only.           *)
(***************************************************************************)
OnInitialized ==
    /\ phase = "initializing"
    /\ UNCHANGED rebuild
    /\ phase' = "running"
    /\ reply' = NoReply
    /\ UNCHANGED << documents, lastChanged >>
    /\ UNCHANGED settingsVars
    /\ UNCHANGED cacheVars

(***************************************************************************)
(* A call of validateTextDocument on the server's cache.                   *)
(***************************************************************************)
Validate(textDocument) ==
    LET st == validateTextDocument(compItemMap, completionItems, textDocument)
    IN  /\ compItemMap' = st.map
        /\ completionItems' = st.items
        /\ parsedWith' = st.log
        /\ lastValidated' = <<textDocument>>

(***************************************************************************)
(* documents.onDidChangeContent, part_000:139-142, fired by the manager    *)
(* when a document is opened and when its content changes.                 *)
(***************************************************************************)
OnDidChangeContent(textDocument) ==
    /\ Validate(textDocument)
    /\ lastChanged' = <<textDocument>>
    /\ reply' = NoReply

DidOpen(uri, text) ==
    /\ phase = "running"
    /\ UNCHANGED rebuild
    /\ ~ IsOpen(documents, uri)
    /\ documents' = OpenDocument(documents, uri, text)
    /\ OnDidChangeContent(TextDoc(uri, text))
    /\ UNCHANGED phase
    /\ UNCHANGED settingsVars

DidChange(uri, text) ==
    /\ phase = "running"
    /\ UNCHANGED rebuild
    /\ IsOpen(documents, uri)
    /\ documents' = UpdateDocument(documents, uri, text)
    /\ OnDidChangeContent(TextDoc(uri, text))
    /\ UNCHANGED phase
    /\ UNCHANGED settingsVars

(***************************************************************************)
(* documents.onDidClose, part_000:132-135.                                 *)
(***************************************************************************)
\* a slip: closing a document withdraws the completions
DidCloseClearing(uri) ==
    /\ phase = "running"
    /\ UNCHANGED rebuild
    /\ IsOpen(documents, uri)
    /\ documents' = RemoveDocument(documents, uri)
    /\ documentSettings' = MapDelete(documentSettings, uri)
    /\ reply' = NoReply
    /\ compItemMap' = MapClear(compItemMap)
    /\ completionItems' = SetLength(completionItems, 0)
    /\ UNCHANGED << phase, hasConfigurationCapability, hasWorkspaceFolderCapability,
                    hasDiagnosticRelatedInformationCapability, globalSettings,
                    lastChanged, parsedWith, lastValidated >>

DidClose(uri) ==
    /\ phase = "running"
    /\ UNCHANGED rebuild
    /\ IsOpen(documents, uri)
    /\ documents' = RemoveDocument(documents, uri)
    /\ documentSettings' = MapDelete(documentSettings, uri)
    /\ reply' = NoReply
    /\ UNCHANGED << phase, hasConfigurationCapability, hasWorkspaceFolderCapability,
                    hasDiagnosticRelatedInformationCapability, globalSettings,
                    lastChanged >>
    /\ UNCHANGED cacheVars

(***************************************************************************)
(* connection.onDidChangeConfiguration, part_000:102-114.                  *)
(***************************************************************************)
\* a slip: only the first open document is revalidated
ValidateAllFirstOnly(st, docs, i) ==
    IF docs = <<>> THEN st ELSE validateTextDocument(st.map, st.items, docs[1])

\* documents.all().forEach(validateTextDocument): a rejected call does not
\* stop the calls after it
RECURSIVE ValidateAll(_, _, _)
ValidateAll(st, docs, i) ==
    IF i > Len(docs)
    THEN st
    ELSE ValidateAll(validateTextDocument(st.map, st.items, docs[i]), docs, i + 1)

\* part_000:108-110: without the configuration capability the handler reads
\* change.settings.languageServerExample, a TypeError when settings is null
ConfigurationThrows(capability, change) == ~ capability /\ change.isNull

\* the cache a configuration change leaves behind, for a server whose
\* hasConfigurationCapability is capability
ConfigurationOutcome(capability, change) ==
    LET st0 == [map |-> compItemMap, items |-> completionItems,
                log |-> parsedWith, threw |-> FALSE]
    IN  IF ConfigurationThrows(capability, change)
        THEN st0
        ELSE ValidateAll(st0, documents, 1)

OnDidChangeConfiguration(change) ==
    /\ phase = "running"
    /\ UNCHANGED rebuild
    /\ reply' = NoReply
    /\ UNCHANGED << phase, hasConfigurationCapability, hasWorkspaceFolderCapability,
                    hasDiagnosticRelatedInformationCapability, documents, lastChanged >>
    /\ IF ConfigurationThrows(hasConfigurationCapability, change)
       THEN UNCHANGED << globalSettings, documentSettings >>
       ELSE IF hasConfigurationCapability
            THEN /\ documentSettings' = MapClear(documentSettings)
                 /\ UNCHANGED globalSettings
            ELSE /\ globalSettings' =
                        IF change.hasSection THEN change.section ELSE defaultSettings
                 /\ UNCHANGED documentSettings
    /\ LET st == ConfigurationOutcome(hasConfigurationCapability, change)
       IN  /\ compItemMap' = st.map
           /\ completionItems' = st.items
           /\ parsedWith' = st.log
    /\ lastValidated' =
           IF ConfigurationThrows(hasConfigurationCapability, change) \/ documents = <<>>
           THEN lastValidated
           ELSE <<documents[Len(documents)]>>

(***************************************************************************)
(* connection.onDidChangeWatchedFiles, part_000:193-196.                   *)
(***************************************************************************)
OnDidChangeWatchedFiles ==
    /\ phase = "running"
    /\ UNCHANGED rebuild
    /\ reply' = NoReply
    /\ UNCHANGED << phase, documents, lastChanged >>
    /\ UNCHANGED settingsVars
    /\ UNCHANGED cacheVars

(***************************************************************************)
(* connection.onCompletion, part_000:199-207.                              *)
(***************************************************************************)
\* a slip: the list is returned at the start of the document only
CompletionResultAtStart(textDocumentPosition) ==
    IF textDocumentPosition.position = 0 THEN completionItems ELSE <<>>

CompletionResult(textDocumentPosition) == completionItems

OnCompletion(uri, position) ==
    /\ phase = "running"
    /\ UNCHANGED rebuild
    /\ reply' = [kind |-> "completion",
                 request |-> [uri |-> uri, position |-> position],
                 items |-> CompletionResult([uri |-> uri, position |-> position])]
    /\ UNCHANGED << phase, documents, lastChanged >>
    /\ UNCHANGED settingsVars
    /\ UNCHANGED cacheVars

(***************************************************************************)
(* connection.onCompletionResolve, part_000:211-223.                       *)
(***************************************************************************)
\* a slip: the first branch is taken for every item
ResolvedItemAlways(item) ==
    [label |-> item.label, kind |-> item.kind,
     detail |-> "Hello CSS", documentation |-> "Hello CSS documentation"]

ResolvedItem(item) ==
    IF item.label = <<"l", "a", "b", "e", "l">>
    THEN [label |-> item.label, kind |-> item.kind,
          detail |-> "Hello CSS", documentation |-> "Hello CSS documentation"]
    ELSE IF item.label = <<"w", "o", "r", "l", "d">>
    THEN [label |-> item.label, kind |-> item.kind,
          detail |-> "World CSS", documentation |-> "World CSS documentation"]
    ELSE item

\* the client resolves an item of the list it was given
OnCompletionResolve(item) ==
    /\ phase = "running"
    /\ UNCHANGED rebuild
    /\ reply' = [kind |-> "resolve", request |-> item, item |-> ResolvedItem(item)]
    /\ UNCHANGED << phase, documents, lastChanged >>
    /\ UNCHANGED settingsVars
    /\ UNCHANGED cacheVars

(***************************************************************************)
(* The server: every event the connection dispatches, one at a time.       *)
(***************************************************************************)
Initialize == \E capabilities \in ClientCapabilities : OnInitialize(capabilities)
Open == \E uri \in Uris, text \in Texts : DidOpen(uri, text)
Change == \E uri \in Uris, text \in Texts : DidChange(uri, text)
Close == \E uri \in Uris : DidClose(uri)
ChangeConfiguration == \E change \in ChangeSettings : OnDidChangeConfiguration(change)
Completion == \E uri \in Uris, position \in Positions : OnCompletion(uri, position)
Resolve == \E item \in Range(completionItems) : OnCompletionResolve(item)

Next ==
    \/ Initialize
    \/ OnInitialized
    \/ Open
    \/ Change
    \/ Close
    \/ ChangeConfiguration
    \/ OnDidChangeWatchedFiles
    \/ Completion
    \/ Resolve

Spec == Init /\ [][Next]_vars

(***************************************************************************)
(* The rebuild specification: one rebuild, of any document of at most      *)
(* MaxBlocks plain style blocks holding at most MaxSyms symbols in all,    *)
(* started from a cache that an earlier document has filled.               *)
(***************************************************************************)
RebuildSymbols == { ClassA, ClassB, IdA, MixinA, ClassDot }

SymSeqs == UNION { [1..k -> RebuildSymbols] : k \in 0..MaxSyms }

\* block i holds the symbols cuts[i-1]+1 .. cuts[i] of syms
BlockSymbols(syms, cuts, i) ==
    SubSeq(syms, (IF i = 1 THEN 0 ELSE cuts[i - 1]) + 1, cuts[i])

\* the cuts of a sequence of len symbols into n blocks
Cuts(n, len) ==
    { cuts \in [1..n -> 0..len] :
        /\ cuts[n] = len
        /\ \A i \in 1..(n - 1) : cuts[i] <= cuts[i + 1] }

\* n >= 1 blocks; block throwAt, if any, is one the language service throws on
BlocksOf(n, syms, cuts, module, throwAt) ==
    [i \in 1..n |->
        Block(module[i], "", Content(i = throwAt, BlockSymbols(syms, cuts, i)))]

\* the documents without blocks
PlainTexts == { TextNoStyle, TextStylesMissing, TextUnparsable }

RebuildUri == "file:///src/A.vue"
PriorUri == "file:///src/B.vue"

\* documents that were opened and closed before the rebuild
PriorTexts == { TextAB, TextLabelThenError }

\* the server after initialize and initialized and, for a prior document,
\* after that document has been opened and closed again
RebuildInit ==
    /\ phase = "running"
    /\ hasConfigurationCapability = FALSE
    /\ hasWorkspaceFolderCapability = FALSE
    /\ hasDiagnosticRelatedInformationCapability = FALSE
    /\ globalSettings = defaultSettings
    /\ documentSettings = <<>>
    /\ documents = <<>>
    /\ reply = NoReply
    /\ rebuild = NoRebuild
    /\ \/ /\ completionItems = <<>>
          /\ compItemMap = <<>>
          /\ parsedWith = <<>>
          /\ lastChanged = <<>>
          /\ lastValidated = <<>>
       \/ \E prior \in PriorTexts :
             LET st == validateTextDocument(<<>>, <<>>, TextDoc(PriorUri, prior))
             IN  /\ completionItems = st.items
                 /\ compItemMap = st.map
                 /\ parsedWith = st.log
                 /\ lastChanged = << TextDoc(PriorUri, prior) >>
                 /\ lastValidated = << TextDoc(PriorUri, prior) >>

OpenPlain == \E text \in PlainTexts : DidOpen(RebuildUri, text)

OpenBlocks ==
    /\ ~ IsOpen(documents, RebuildUri)
    /\ \E n \in 1..MaxBlocks, syms \in SymSeqs :
        \E cuts \in Cuts(n, Len(syms)), module \in [1..n -> BOOLEAN], throwAt \in 0..n :
            DidOpen(RebuildUri,
                    Source(FALSE, TRUE, BlocksOf(n, syms, cuts, module, throwAt)))

RebuildNext == OpenPlain \/ OpenBlocks

RebuildSpec == RebuildInit /\ [][RebuildNext]_vars

(***************************************************************************)
(* The step specification: validateTextDocument taken one statement group  *)
(* at a time (the clearing, the parse of the source, each pass of the loop *)
(* over styles), with the connection dispatching the next event only when  *)
(* the handler that runs has returned or is suspended at an await.         *)
(* rebuild.frames holds the calls of validateTextDocument that have begun  *)
(* and not ended; rebuild.queue the documents forEach has yet to pass.     *)
(***************************************************************************)
\* a slip: the language service is awaited, so the loop yields at each block
SuspendsAtBlockAwaiting(style) == TRUE

\* part_000:144-191: the function is async and holds no await, so no pass of
\* its loop hands control back to the event loop
SuspendsAtBlock(style) == FALSE

Frame(textDocument, stage, i) == [doc |-> textDocument, stage |-> stage, i |-> i]

\* part_000:150-151: the styles the loop of a call runs over
StylesOf(textDocument) ==
    LET got == getStyles(textDocument.text)
    IN  IF got.isNull THEN <<>> ELSE got.blocks

\* the event loop takes the next message when no call is on the stack
Dispatchable ==
    /\ rebuild.queue = <<>>
    /\ \A k \in DOMAIN rebuild.frames :
          /\ rebuild.frames[k].stage = "blocks"
          /\ SuspendsAtBlock(StylesOf(rebuild.frames[k].doc)[rebuild.frames[k].i])

RemoveFrame(frames, k) == SubSeq(frames, 1, k - 1) \o SubSeq(frames, k + 1, Len(frames))

\* part_000:144-147: the call begins and empties the cache
BeginValidate(textDocument, queue) ==
    LET st == ResetCache(compItemMap, completionItems)
    IN  /\ compItemMap' = st.map
        /\ completionItems' = st.items
        /\ parsedWith' = st.log
        /\ lastValidated' = <<textDocument>>
        /\ rebuild' = [frames |-> Append(rebuild.frames, Frame(textDocument, "parse", 0)),
                       queue  |-> queue]

\* the documents of the step specification
StepTexts == { TextNoStyle, TextUnparsable, TextAB, TextLabelThenError }

StepInit ==
    /\ phase = "running"
    /\ hasConfigurationCapability \in BOOLEAN
    /\ hasWorkspaceFolderCapability = FALSE
    /\ hasDiagnosticRelatedInformationCapability = FALSE
    /\ globalSettings = defaultSettings
    /\ documentSettings = <<>>
    /\ documents = <<>>
    /\ completionItems = <<>>
    /\ compItemMap = <<>>
    /\ parsedWith = <<>>
    /\ lastChanged = <<>>
    /\ lastValidated = <<>>
    /\ reply = NoReply
    /\ rebuild = NoRebuild

\* part_000:139-142 up to the clearing of the cache
StepOpen(uri, text) ==
    /\ phase = "running"
    /\ Dispatchable
    /\ Len(rebuild.frames) < MaxFrames
    /\ ~ IsOpen(documents, uri)
    /\ documents' = OpenDocument(documents, uri, text)
    /\ lastChanged' = <<TextDoc(uri, text)>>
    /\ reply' = NoReply
    /\ BeginValidate(TextDoc(uri, text), rebuild.queue)
    /\ UNCHANGED phase
    /\ UNCHANGED settingsVars

StepChange(uri, text) ==
    /\ phase = "running"
    /\ Dispatchable
    /\ Len(rebuild.frames) < MaxFrames
    /\ IsOpen(documents, uri)
    /\ documents' = UpdateDocument(documents, uri, text)
    /\ lastChanged' = <<TextDoc(uri, text)>>
    /\ reply' = NoReply
    /\ BeginValidate(TextDoc(uri, text), rebuild.queue)
    /\ UNCHANGED phase
    /\ UNCHANGED settingsVars

\* part_000:150-151: new VueParser(...) and getStyles() || []
StepParse(k) ==
    /\ rebuild.frames[k].stage = "parse"
    /\ LET textDocument == rebuild.frames[k].doc
       IN  rebuild' =
             [rebuild EXCEPT !.frames =
                 IF textDocument.text.throws \/ StylesOf(textDocument) = <<>>
                 THEN RemoveFrame(rebuild.frames, k)
                 ELSE [rebuild.frames EXCEPT ![k] = Frame(textDocument, "blocks", 1)]]
    /\ UNCHANGED << phase, documents, lastChanged, reply >>
    /\ UNCHANGED settingsVars
    /\ UNCHANGED cacheVars

\* part_000:155-189: one pass of the loop over styles
StepBlock(k) ==
    /\ rebuild.frames[k].stage = "blocks"
    /\ LET frame  == rebuild.frames[k]
           styles == StylesOf(frame.doc)
           st     == ProcessBlock([map |-> compItemMap, items |-> completionItems,
                                   log |-> parsedWith, threw |-> FALSE],
                                  styles[frame.i])
       IN  /\ compItemMap' = st.map
           /\ completionItems' = st.items
           /\ parsedWith' = st.log
           /\ rebuild' =
                [rebuild EXCEPT !.frames =
                    IF st.threw \/ frame.i = Len(styles)
                    THEN RemoveFrame(rebuild.frames, k)
                    ELSE [rebuild.frames EXCEPT ![k] = Frame(frame.doc, "blocks", frame.i + 1)]]
    /\ UNCHANGED << phase, documents, lastChanged, lastValidated, reply >>
    /\ UNCHANGED settingsVars

\* part_000:102-114 up to the clearing of the cache by the first call
StepConfiguration(change) ==
    /\ phase = "running"
    /\ Dispatchable
    /\ Len(rebuild.frames) < MaxFrames
    /\ reply' = NoReply
    /\ UNCHANGED << phase, hasConfigurationCapability, hasWorkspaceFolderCapability,
                    hasDiagnosticRelatedInformationCapability, documents, lastChanged >>
    /\ IF ~ hasConfigurationCapability /\ change.isNull
       THEN \* change.settings.languageServerExample throws a TypeError
            /\ UNCHANGED << globalSettings, documentSettings, rebuild >>
            /\ UNCHANGED cacheVars
       ELSE /\ IF hasConfigurationCapability
               THEN /\ documentSettings' = MapClear(documentSettings)
                    /\ UNCHANGED globalSettings
               ELSE /\ globalSettings' =
                           IF change.hasSection THEN change.section ELSE defaultSettings
                    /\ UNCHANGED documentSettings
            /\ IF documents = <<>>
               THEN /\ UNCHANGED cacheVars
                    /\ UNCHANGED rebuild
               ELSE BeginValidate(Head(documents), Tail(documents))

\* part_000:113: forEach passes the next document once the call before it has returned
StepForEach ==
    /\ rebuild.frames = <<>>
    /\ rebuild.queue # <<>>
    /\ BeginValidate(Head(rebuild.queue), Tail(rebuild.queue))
    /\ UNCHANGED << phase, documents, lastChanged, reply >>
    /\ UNCHANGED settingsVars

StepClose(uri) == Dispatchable /\ DidClose(uri)

StepCompletion(uri, position) == Dispatchable /\ OnCompletion(uri, position)

StepNext ==
    \/ \E uri \in Uris, text \in StepTexts : StepOpen(uri, text)
    \/ \E uri \in Uris, text \in StepTexts : StepChange(uri, text)
    \/ \E k \in DOMAIN rebuild.frames : StepParse(k)
    \/ \E k \in DOMAIN rebuild.frames : StepBlock(k)
    \/ \E change \in ChangeSettings : StepConfiguration(change)
    \/ StepForEach
    \/ \E uri \in Uris : StepClose(uri)
    \/ \E uri \in Uris, position \in Positions : StepCompletion(uri, position)

StepSpec == StepInit /\ [][StepNext]_vars

(***************************************************************************)
(* The vocabulary of the properties.                                       *)
(***************************************************************************)
\* the style blocks the SFC parser found in a source
StyleBlocks(text) == IF text.throws \/ ~ text.hasStyles THEN <<>> ELSE text.blocks

\* a class selector: a symbol of kind Class named '.' followed by a bare name
ClassSelector(sym) ==
    /\ sym.kind = "Class"
    /\ Len(sym.name) >= 2
    /\ Head(sym.name) = "."

BareName(sym) == Tail(sym.name)

SymbolAt(blocks, place) == blocks[place[1]].content.symbols[place[2]]

\* the places <<block, symbol>> of the class selectors of the module blocks
Places(blocks) ==
    UNION { { <<i, k>> : k \in { n \in DOMAIN blocks[i].content.symbols :
                                   ClassSelector(blocks[i].content.symbols[n]) } } :
            i \in { j \in DOMAIN blocks : blocks[j].module } }

\* document order: block order, then symbol order within the block
Before(p, q) == p[1] < q[1] \/ (p[1] = q[1] /\ p[2] < q[2])

\* the places where a bare name occurs for the first time
FirstPlaces(blocks) ==
    { p \in Places(blocks) :
        \A q \in Places(blocks) :
            BareName(SymbolAt(blocks, q)) = BareName(SymbolAt(blocks, p)) => ~ Before(q, p) }

\* items holds one item per distinct bare name of blocks, in order of first occurrence
ListsNamesOf(items, blocks) ==
    /\ Len(items) = Cardinality(FirstPlaces(blocks))
    /\ \A p \in FirstPlaces(blocks) :
          \E i \in DOMAIN items : items[i].label = BareName(SymbolAt(blocks, p))
    /\ \A i, j \in DOMAIN items :
          i < j => \A p, q \in FirstPlaces(blocks) :
                      /\ BareName(SymbolAt(blocks, p)) = items[i].label
                      /\ BareName(SymbolAt(blocks, q)) = items[j].label
                      => Before(p, q)

\* the first module block the language service throws on, 0 when there is none
FirstFailing(blocks) ==
    LET failing == { i \in DOMAIN blocks : blocks[i].module /\ blocks[i].content.throws }
    IN  IF failing = {} THEN 0
        ELSE CHOOSE i \in failing : \A j \in failing : i <= j

\* the rebuild of this source ends with an error
RebuildFails(text) == text.throws \/ FirstFailing(StyleBlocks(text)) # 0

Labels(items) == { items[i].label : i \in DOMAIN items }

LabelA == <<"a">>
LabelB == <<"b">>

(***************************************************************************)
(* C1. After a document-change event whose rebuild ends without error, the *)
(* published list holds exactly one item per distinct bare name of the     *)
(* admitted symbols of the document's module blocks, in the order of their *)
(* first occurrence, and nothing else, whatever the cache held before.     *)
(***************************************************************************)
C1_ListIsTheDistinctNames ==
    (lastChanged # <<>> /\ ~ RebuildFails(lastChanged[1].text)) =>
        ListsNamesOf(completionItems, StyleBlocks(lastChanged[1].text))

\* two module blocks, .b in the first and .a in the second, published as b, a
C1_Witness ==
    /\ lastChanged # <<>>
    /\ lastChanged[1].uri = RebuildUri
    /\ ~ RebuildFails(lastChanged[1].text)
    /\ Len(StyleBlocks(lastChanged[1].text)) = 2
    /\ \A i \in 1..2 : StyleBlocks(lastChanged[1].text)[i].module
    /\ StyleBlocks(lastChanged[1].text)[1].content.symbols = <<ClassB>>
    /\ StyleBlocks(lastChanged[1].text)[2].content.symbols = <<ClassA>>
    /\ Len(completionItems) = 2
    /\ completionItems[1].label = LabelB
    /\ completionItems[2].label = LabelA

(***************************************************************************)
(* C2. After a document without a module style block has been processed,   *)
(* the published list is empty, whatever it held before.                   *)
(***************************************************************************)
NoModuleBlock(text) ==
    \A i \in DOMAIN StyleBlocks(text) : ~ StyleBlocks(text)[i].module

C2_NoModuleBlockEmptiesTheList ==
    (lastChanged # <<>> /\ NoModuleBlock(lastChanged[1].text)) => completionItems = <<>>

\* a document whose only blocks are plain ones that define classes
C2_Witness ==
    /\ lastChanged # <<>>
    /\ lastChanged[1].uri = RebuildUri
    /\ NoModuleBlock(lastChanged[1].text)
    /\ Len(StyleBlocks(lastChanged[1].text)) = 2
    /\ StyleBlocks(lastChanged[1].text)[1].content.symbols = <<ClassA>>
    /\ StyleBlocks(lastChanged[1].text)[2].content.symbols = <<ClassB>>
    /\ completionItems = <<>>

(***************************************************************************)
(* C3. In every reachable state no two items of the published list have    *)
(* the same label: of the admitted symbols that share a bare name only the *)
(* first inserts an item.                                                  *)
(***************************************************************************)
C3_LabelsAreUnique ==
    /\ \A i, j \in DOMAIN completionItems :
          completionItems[i].label = completionItems[j].label => i = j
    /\ \A i, j \in DOMAIN compItemMap :
          compItemMap[i].key = compItemMap[j].key => i = j

\* .b twice in one block of the document, listed once
C3_Witness ==
    /\ lastValidated # <<>>
    /\ lastValidated[1].text = TextMixed
    /\ Cardinality({ k \in DOMAIN TextMixed.blocks[2].content.symbols :
                       TextMixed.blocks[2].content.symbols[k] = ClassB }) = 2
    /\ Cardinality({ i \in DOMAIN completionItems : completionItems[i].label = LabelB }) = 1

(***************************************************************************)
(* C4. A style block that is not a module block contributes no item,       *)
(* whatever it holds and wherever it stands: every label of the list comes *)
(* from a symbol of a module block, and the list is the one the document   *)
(* without its plain blocks gets.                                          *)
(***************************************************************************)
IsModule(block) == block.module

WithoutPlainBlocks(text) == [text EXCEPT !.blocks = SelectSeq(text.blocks, IsModule)]

C4_PlainBlocksContributeNothing ==
    lastChanged # <<>> =>
        LET doc    == lastChanged[1]
            blocks == StyleBlocks(doc.text)
        IN  /\ \A label \in Labels(completionItems) :
                  \E i \in DOMAIN blocks :
                      /\ blocks[i].module
                      /\ \E k \in DOMAIN blocks[i].content.symbols :
                            SliceFrom(blocks[i].content.symbols[k].name, 1) = label
            /\ completionItems =
                  validateTextDocument(<<>>, <<>>,
                                       TextDoc(doc.uri, WithoutPlainBlocks(doc.text))).items

\* a plain block with .a before a module block with .b: only b is listed
C4_Witness ==
    /\ lastChanged # <<>>
    /\ lastChanged[1].uri = RebuildUri
    /\ Len(StyleBlocks(lastChanged[1].text)) = 2
    /\ ~ StyleBlocks(lastChanged[1].text)[1].module
    /\ StyleBlocks(lastChanged[1].text)[1].content = Content(FALSE, <<ClassA>>)
    /\ StyleBlocks(lastChanged[1].text)[2].module
    /\ StyleBlocks(lastChanged[1].text)[2].content = Content(FALSE, <<ClassB>>)
    /\ Labels(completionItems) = { LabelB }

(***************************************************************************)
(* C5. A symbol whose name does not begin with '.' produces no item,       *)
(* whatever its kind, and a symbol whose kind is not Class produces none,  *)
(* whatever its name: every item of the list has, in a module block, a     *)
(* symbol of kind Class named '.' followed by the item's label.            *)
(***************************************************************************)
C5_OnlyDottedClassSymbols ==
    lastChanged # <<>> =>
        LET blocks == StyleBlocks(lastChanged[1].text)
        IN  \A i \in DOMAIN completionItems :
               \E p \in Places(blocks) :
                  /\ SymbolAt(blocks, p).kind = "Class"
                  /\ Head(SymbolAt(blocks, p).name) = "."
                  /\ Tail(SymbolAt(blocks, p).name) = completionItems[i].label

\* a module block with #a of kind Class and .a of kind Method: nothing is listed
C5_Witness ==
    /\ lastChanged # <<>>
    /\ lastChanged[1].uri = RebuildUri
    /\ Len(StyleBlocks(lastChanged[1].text)) = 1
    /\ StyleBlocks(lastChanged[1].text)[1].module
    /\ StyleBlocks(lastChanged[1].text)[1].content = Content(FALSE, <<IdA, MixinA>>)
    /\ completionItems = <<>>

(***************************************************************************)
(* C6. A completion request returns exactly the published list: the empty  *)
(* list while no document change has been processed, the full rebuilt list *)
(* after one, and the same list whatever document and position the request *)
(* names.                                                                  *)
(***************************************************************************)
\* what a rebuild of the document leaves in the list, from any cache
RebuildResult(textDocument) == validateTextDocument(<<>>, <<>>, textDocument).items

C6_CompletionReturnsThePublishedList ==
    reply.kind = "completion" =>
        /\ reply.items = completionItems
        /\ lastChanged = <<>> => reply.items = <<>>
        /\ lastValidated # <<>> => reply.items = RebuildResult(lastValidated[1])

\* a request at position 1 of another document than the one rebuilt last
C6_Witness ==
    /\ reply.kind = "completion"
    /\ reply.request.position = 1
    /\ lastValidated # <<>>
    /\ reply.request.uri # lastValidated[1].uri
    /\ Len(reply.items) = 2
    /\ reply.items = completionItems

(***************************************************************************)
(* C7. Every module block is parsed by the language service of its         *)
(* declared language: lang 'scss' by the SCSS service, lang 'less' by the  *)
(* LESS service, any other or no lang by the CSS service.                  *)
(***************************************************************************)
ServiceOfLang(lang) ==
    CASE lang = "scss" -> "SCSS"
      [] lang = "less" -> "LESS"
      [] OTHER -> "CSS"

C7_ServiceChosenByLang ==
    \A i \in DOMAIN parsedWith : parsedWith[i].service = ServiceOfLang(parsedWith[i].lang)

(***************************************************************************)
(* C8. As claimed: after any sequence of events the published list is the  *)
(* rebuild result of the document whose content changed most recently.     *)
(***************************************************************************)
C8_ListOfLastChangedDocument ==
    lastChanged # <<>> => completionItems = RebuildResult(lastChanged[1])

(***************************************************************************)
(* C8, amended. The published list is the rebuild result of the document   *)
(* rebuilt most recently: the document changed most recently or, when a    *)
(* configuration change came later while documents were open, the last     *)
(* open document in the manager's order.  It is empty before the first     *)
(* rebuild, and no rebuild happens before the first document change.       *)
(***************************************************************************)
C8_ListOfLastRebuiltDocument ==
    /\ lastValidated = <<>> => (completionItems = <<>> /\ lastChanged = <<>>)
    /\ lastValidated # <<>> =>
          /\ completionItems = RebuildResult(lastValidated[1])
          /\ lastChanged # <<>>

\* a configuration change has put another document's names in the list
C8_Witness ==
    /\ lastChanged # <<>>
    /\ lastValidated # <<>>
    /\ lastValidated[1].uri # lastChanged[1].uri
    /\ completionItems = RebuildResult(lastValidated[1])
    /\ completionItems # RebuildResult(lastChanged[1])
    /\ completionItems # <<>>

(***************************************************************************)
(* C9. As claimed: when the SFC parse or a stylesheet parse throws during  *)
(* a document change, the published list stays what it was before.         *)
(***************************************************************************)
C9_FailedRebuildKeepsTheList ==
    [][ (lastChanged' # lastChanged /\ RebuildFails(lastChanged'[1].text))
            => completionItems' = completionItems ]_vars

(***************************************************************************)
(* C9, amended. When the SFC parse throws, the published list is left      *)
(* empty; when a stylesheet parse throws, the list holds the names of the  *)
(* module blocks before the failing one and nothing of the blocks after.   *)
(***************************************************************************)
C9_FailedRebuildLeavesThePartialList ==
    (lastChanged # <<>> /\ RebuildFails(lastChanged[1].text)) =>
        LET text   == lastChanged[1].text
            blocks == StyleBlocks(text)
        IN  IF text.throws
            THEN completionItems = <<>>
            ELSE ListsNamesOf(completionItems, SubSeq(blocks, 1, FirstFailing(blocks) - 1))

\* .a in a first module block, a parse error in the second: a is listed
C9_Witness ==
    /\ lastChanged # <<>>
    /\ lastChanged[1].uri = RebuildUri
    /\ Len(StyleBlocks(lastChanged[1].text)) = 2
    /\ StyleBlocks(lastChanged[1].text)[1] = Block(TRUE, "", Content(FALSE, <<ClassA>>))
    /\ StyleBlocks(lastChanged[1].text)[2].module
    /\ StyleBlocks(lastChanged[1].text)[2].content.throws
    /\ completionItems = << CompletionItemOf(LabelA) >>

(***************************************************************************)
(* C10. As claimed: resolve returns every item the server can publish with *)
(* no field added or changed.                                              *)
(***************************************************************************)
C10_ResolveIsInert ==
    reply.kind = "resolve" => reply.item = reply.request

(***************************************************************************)
(* C10, amended. Resolve returns a published item with no field added or   *)
(* changed unless its label is 'label' or 'world', which the classes       *)
(* .label and .world publish; to those it adds the detail and the          *)
(* documentation of its two branches and leaves label and kind alone.      *)
(***************************************************************************)
LabelLabel == <<"l", "a", "b", "e", "l">>
LabelWorld == <<"w", "o", "r", "l", "d">>

C10_ResolveIsInertButForTwoLabels ==
    reply.kind = "resolve" =>
        /\ reply.request \in Range(completionItems)
        /\ reply.item.label = reply.request.label
        /\ reply.item.kind = reply.request.kind
        /\ reply.request.label \notin { LabelLabel, LabelWorld } => reply.item = reply.request
        /\ reply.request.label = LabelLabel =>
              reply.item = [label |-> LabelLabel, kind |-> "Property",
                            detail |-> "Hello CSS",
                            documentation |-> "Hello CSS documentation"]
        /\ reply.request.label = LabelWorld =>
              reply.item = [label |-> LabelWorld, kind |-> "Property",
                            detail |-> "World CSS",
                            documentation |-> "World CSS documentation"]

\* the item of the class .a comes back as it was sent
C10_Witness ==
    /\ reply.kind = "resolve"
    /\ reply.request = CompletionItemOf(LabelA)
    /\ reply.request \in Range(completionItems)
    /\ reply.item = reply.request

(***************************************************************************)
(* C11. Handlers run to completion: no two rebuilds are under way at the   *)
(* same time, and a completion request is never served while a rebuild is  *)
(* under way.  The list a completion response carries is the initial empty *)
(* list or the list the last rebuild left when it ended (a rebuild ends    *)
(* when its call returns or throws): never the list of a rebuild that has  *)
(* cleared and not yet refilled, never a mix of two documents.             *)
(***************************************************************************)
C11_CompletionSeesWholeRebuilds ==
    /\ Len(rebuild.frames) <= 1
    /\ reply.kind = "completion" =>
          /\ rebuild = NoRebuild
          /\ reply.items = IF lastValidated = <<>>
                           THEN <<>>
                           ELSE RebuildResult(lastValidated[1])

\* a completion served after a configuration change has rebuilt two open
\* documents one after the other, the last of them over two module blocks
C11_Witness ==
    /\ reply.kind = "completion"
    /\ Len(documents) = 2
    /\ lastChanged # lastValidated
    /\ lastValidated = <<documents[2]>>
    /\ documents[2].text = TextAB
    /\ documents[1].text = TextLabelThenError
    /\ Len(reply.items) = 2

(***************************************************************************)
(* C12. The response to initialize always advertises incremental text      *)
(* synchronisation and a completion provider with resolve enabled; it      *)
(* advertises workspace-folder support exactly when the client has         *)
(* declared workspace.workspaceFolders.                                    *)
(***************************************************************************)
C12_InitializeAdvertises ==
    reply.kind = "initialize" =>
        /\ reply.result.textDocumentSync = "Incremental"
        /\ reply.result.resolveProvider
        /\ reply.result.workspaceFolders <=> reply.request.workspaceFolders

\* a client without workspace folders that declares the two other capabilities
C12_Witness ==
    /\ reply.kind = "initialize"
    /\ ~ reply.request.workspaceFolders
    /\ reply.request.configuration
    /\ ~ reply.result.workspaceFolders

(***************************************************************************)
(* C15. Every item of the published list has kind Property and a label     *)
(* that is not empty and is the name of a class symbol of a module block   *)
(* of the rebuilt document with its leading '.' removed; so a symbol       *)
(* named just '.' gives no item.                                           *)
(***************************************************************************)
C15_ItemsAreNamedProperties ==
    lastValidated # <<>> =>
        LET blocks == StyleBlocks(lastValidated[1].text)
        IN  \A n \in DOMAIN completionItems :
                /\ completionItems[n].kind = "Property"
                /\ completionItems[n].label # <<>>
                /\ \E i \in DOMAIN blocks :
                      /\ blocks[i].module
                      /\ \E k \in DOMAIN blocks[i].content.symbols :
                            /\ blocks[i].content.symbols[k].kind = "Class"
                            /\ blocks[i].content.symbols[k].name
                                   = <<".">> \o completionItems[n].label

\* a module block holding '.' and '.a' has been rebuilt: one item, a
C15_Witness ==
    /\ documents # <<>>
    /\ lastValidated = <<documents[1]>>
    /\ Len(documents[1].text.blocks) = 1
    /\ documents[1].text.blocks[1].module
    /\ ~ documents[1].text.blocks[1].content.throws
    /\ documents[1].text.blocks[1].content.symbols = <<ClassDot, ClassA>>
    /\ completionItems = << [label |-> <<"a">>, kind |-> "Property"] >>

(***************************************************************************)
(* C17. A close, a watched-files notification, a completion request and a  *)
(* resolve request leave the map and the published list as they are: the   *)
(* completions of a document stay published after it has been closed.      *)
(***************************************************************************)
C17_ReadersAndCloseKeepTheCache ==
    [][ (Close \/ OnDidChangeWatchedFiles \/ Completion \/ Resolve)
            => UNCHANGED << compItemMap, completionItems >> ]_vars

\* every document has been closed and a completion is still answered with items
C17_Witness ==
    /\ documents = <<>>
    /\ lastValidated # <<>>
    /\ completionItems # <<>>
    /\ reply.kind = "completion"
    /\ reply.items = completionItems

(***************************************************************************)
(* C18. Between handlers the published list holds exactly the values of    *)
(* the map, in the map's insertion order, and every entry of the map is    *)
(* keyed by the label of its item; also after a rebuild that met no module *)
(* block and after one that an error cut short.                            *)
(***************************************************************************)
C18_ListIsTheMapsValues ==
    /\ Len(completionItems) = Len(compItemMap)
    /\ \A i \in DOMAIN compItemMap :
          /\ completionItems[i] = compItemMap[i].value
          /\ compItemMap[i].key = compItemMap[i].value.label

\* a rebuild cut short by the error of its second block, after its first
\* block has put two entries into the map
C18_Witness ==
    /\ lastValidated # <<>>
    /\ lastValidated[1].text = TextLabelThenError
    /\ Len(compItemMap) = 2
    /\ completionItems = << CompletionItemOf(LabelLabel), CompletionItemOf(LabelWorld) >>

C14_SettingsNeverReachTheList ==
    phase = "running" =>
        \A capability1, capability2 \in BOOLEAN :
            \A change1, change2 \in ChangeSettings :
                ConfigurationOutcome(capability1, change1).items
                    = ConfigurationOutcome(capability2, change2).items

(***************************************************************************)
(* C16. A configuration change rebuilds every open document in the         *)
(* manager's order, each rebuild clearing the one before: afterwards the   *)
(* list is the rebuild result of the last open document, and it is left    *)
(* as it was when no document is open.                                     *)
(***************************************************************************)
C16_ConfigurationRebuildsToTheLastDocument ==
    [][ ChangeConfiguration =>
            completionItems' = IF documents = <<>>
                               THEN completionItems
                               ELSE RebuildResult(documents[Len(documents)]) ]_vars

====
